---- MODULE Spec2Model ----
(***************************************************************************)
(* Model of Zipklas/subscription-service: the month-token parser, the      *)
(* date validation of the service layer, the subscriptions table with its  *)
(* CRUD statements, and the SQL of CalculateTotalCost.                     *)
(*                                                                         *)
(* Conventions.                                                            *)
(*  - A Go string that the code inspects character by character (a month   *)
(*    token) is a sequence of one-character strings.                       *)
(*  - A Go pointer to a string or to a time.Time, and a nullable column,  *)
(*    are a sequence of length 0 (nil / NULL) or 1 (the value).            *)
(*  - A time.Time / SQL timestamp is a record of its calendar fields, in   *)
(*    UTC: the code builds every time with time.UTC (time.Parse without a  *)
(*    zone, time.Date(..., time.UTC)), and the database session is taken   *)
(*    to run in UTC as well.                                               *)
(*  - created_at / updated_at are not modelled: no statement of the        *)
(*    program reads them back into a decision.                             *)
(*                                                                         *)
(* Four specifications.   Spec: the five HTTP operations on a table of up  *)
(* to MaxIds rows.  SummarySpec: the summary over every table one accepted *)
(* create leaves behind, for periods over more months.  ParserSpec: the    *)
(* two parsers and the two formatters called directly on texts of every    *)
(* shape.  ConcurrentSpec: creates, deletes and updates on a table of up   *)
(* to MaxIds rows, where an update is two steps, its existence check and   *)
(* its UPDATE, and other requests run between them.                        *)
(***************************************************************************)
EXTENDS Integers, Sequences, FiniteSets, TLC

(***************************************************************************)
(* time.Time                                                               *)
(***************************************************************************)

Time(y, mo, d, h, mi, s) ==
    [year |-> y, month |-> mo, day |-> d, hour |-> h, min |-> mi, sec |-> s]

\* time.Time{}: January 1, year 1, 00:00:00 UTC.
ZeroTime == Time(1, 1, 1, 0, 0, 0)

\* Time.IsZero
IsZero(t) == t = ZeroTime

isLeap(y) == (y % 4 = 0) /\ ((y % 100 # 0) \/ (y % 400 = 0))

\* Days of month mo (1..12) of year y.
daysIn(y, mo) ==
    IF mo = 2 THEN (IF isLeap(y) THEN 29 ELSE 28)
    ELSE IF mo \in {4, 6, 9, 11} THEN 30 ELSE 31

\* Position of a time in the day, and of a day in the calendar; both small
\* enough for machine integers.
SecOfDay(t) == (t.hour * 60 + t.min) * 60 + t.sec
DayKey(t) == (t.year * 12 + (t.month - 1)) * 32 + t.day

\* Time.Before
Before(a, b) ==
    \/ DayKey(a) < DayKey(b)
    \/ DayKey(a) = DayKey(b) /\ SecOfDay(a) < SecOfDay(b)

\* a <= b on timestamps (SQL <=).
TimeLE(a, b) == ~Before(b, a)

\* time.Date(y, mo, d, h, mi, s, 0, time.UTC) for the arguments the program
\* passes: the month may overflow (Month()+1 = 13) and the day may be 0,
\* which Go normalises to the last day of the preceding month.
Date(y, mo, d, h, mi, s) ==
    LET m0 == mo - 1
        yy == y + (IF m0 >= 0 THEN m0 \div 12 ELSE -((11 - m0) \div 12))
        mm == (m0 % 12) + 1
        py == IF mm = 1 THEN yy - 1 ELSE yy
        pm == IF mm = 1 THEN 12 ELSE mm - 1
    IN  IF d = 0 THEN Time(py, pm, daysIn(py, pm), h, mi, s)
        ELSE Time(yy, mm, d, h, mi, s)

(***************************************************************************)
(* Month tokens: time.Parse("01-2006", s) and Time.Format("01-2006")       *)
(***************************************************************************)

DigitChars == <<"0", "1", "2", "3", "4", "5", "6", "7", "8", "9">>

isDigit(c) == \E i \in 1..10 : DigitChars[i] = c

digitVal(c) == (CHOOSE i \in 1..10 : DigitChars[i] = c) - 1

\* What timeParse is not: a parser without the month range check, which
\* lets time.Date normalise month 00 and month 13 into the neighbouring year.
timeParse_NoMonthRange(s) ==
    IF /\ Len(s) = 7
       /\ isDigit(s[1]) /\ isDigit(s[2])
       /\ s[3] = "-"
       /\ \A i \in 4..7 : isDigit(s[i])
    THEN LET month == digitVal(s[1]) * 10 + digitVal(s[2])
             year  == digitVal(s[4]) * 1000 + digitVal(s[5]) * 100
                        + digitVal(s[6]) * 10 + digitVal(s[7])
         IN  [err |-> "", t |-> Date(year, month, 1, 0, 0, 0)]
    ELSE [err |-> "parsing time: cannot parse", t |-> ZeroTime]

\* time.Parse with layout "01-2006": a two-digit month (stdZeroMonth), the
\* literal "-", a four-digit year (stdLongYear), and nothing after it; the
\* month must be 1..12.  Day, hour, minute and second default to the first
\* instant of the month.
timeParse(s) ==
    IF /\ Len(s) = 7
       /\ isDigit(s[1]) /\ isDigit(s[2])
       /\ s[3] = "-"
       /\ \A i \in 4..7 : isDigit(s[i])
    THEN LET month == digitVal(s[1]) * 10 + digitVal(s[2])
             year  == digitVal(s[4]) * 1000 + digitVal(s[5]) * 100
                        + digitVal(s[6]) * 10 + digitVal(s[7])
         IN  IF month <= 0 \/ 12 < month
             THEN [err |-> "parsing time: month out of range", t |-> ZeroTime]
             ELSE [err |-> "", t |-> Date(year, month, 1, 0, 0, 0)]
    ELSE [err |-> "parsing time: cannot parse", t |-> ZeroTime]

\* model.ParseMonthYear
ParseMonthYear(dateStr) ==
    IF dateStr = <<>>
    THEN [err |-> "date string is empty", t |-> ZeroTime]
    ELSE timeParse(dateStr)

\* model.ParseMonthYearPtr: nil or "" is "no date", not an error.
ParseMonthYearPtr(dateStr) ==
    IF dateStr = <<>> \/ dateStr[1] = <<>>
    THEN [err |-> "", t |-> <<>>]
    ELSE LET r == timeParse(dateStr[1])
         IN  IF r.err # "" THEN [err |-> r.err, t |-> <<>>]
             ELSE [err |-> "", t |-> <<r.t>>]

\* What formatMonthYear is not: Time.Format("1-2006"), the month without its
\* leading zero.
formatMonthYear_Unpadded(t) ==
    (IF t.month < 10 THEN <<DigitChars[t.month + 1]>>
     ELSE <<DigitChars[(t.month \div 10) + 1], DigitChars[(t.month % 10) + 1]>>)
    \o << "-",
          DigitChars[((t.year \div 1000) % 10) + 1],
          DigitChars[((t.year \div 100) % 10) + 1],
          DigitChars[((t.year \div 10) % 10) + 1],
          DigitChars[(t.year % 10) + 1] >>

\* model.formatMonthYear: Time.Format("01-2006"), month and year zero padded.
formatMonthYear(t) ==
    << DigitChars[(t.month \div 10) + 1], DigitChars[(t.month % 10) + 1], "-",
       DigitChars[((t.year \div 1000) % 10) + 1],
       DigitChars[((t.year \div 100) % 10) + 1],
       DigitChars[((t.year \div 10) % 10) + 1],
       DigitChars[(t.year % 10) + 1] >>

(***************************************************************************)
(* PostgreSQL expressions used by the summary query                        *)
(***************************************************************************)

RECURSIVE BorrowDays(_, _, _)
\* The "while (tm_mday < 0)" loop of age(): each pass borrows one month of
\* dim days.
BorrowDays(mday, mon, dim) ==
    IF mday < 0 THEN BorrowDays(mday + dim, mon - 1, dim) ELSE <<mday, mon>>

\* age(dt1, dt2): the symbolic difference of the calendar fields, computed on
\* the absolute value (fields flipped when dt1 < dt2), negative fields
\* borrowed from the next higher field, and the sign restored.  The result
\* is an interval: months (years folded in), days, seconds.
Age(dt1, dt2) ==
    LET neg  == Before(dt1, dt2)
        sg   == IF neg THEN -1 ELSE 1
        sec0 == sg * (dt1.sec - dt2.sec)
        min0 == sg * (dt1.min - dt2.min)
        hr0  == sg * (dt1.hour - dt2.hour)
        day0 == sg * (dt1.day - dt2.day)
        mon0 == sg * (dt1.month - dt2.month)
        yr0  == sg * (dt1.year - dt2.year)
        sec1 == IF sec0 < 0 THEN sec0 + 60 ELSE sec0
        min1 == IF sec0 < 0 THEN min0 - 1 ELSE min0
        min2 == IF min1 < 0 THEN min1 + 60 ELSE min1
        hr1  == IF min1 < 0 THEN hr0 - 1 ELSE hr0
        hr2  == IF hr1 < 0 THEN hr1 + 24 ELSE hr1
        day1 == IF hr1 < 0 THEN day0 - 1 ELSE day0
        dim  == IF neg THEN daysIn(dt1.year, dt1.month)
                       ELSE daysIn(dt2.year, dt2.month)
        dm   == BorrowDays(day1, mon0, dim)
    IN  [ month |-> sg * (yr0 * 12 + dm[2]),
          day   |-> sg * dm[1],
          time  |-> sg * ((hr2 * 60 + min2) * 60 + sec1) ]

\* Integer division truncating toward zero, and its remainder (C semantics,
\* as interval fields are extracted).
TruncDiv(a, b) == IF a >= 0 THEN a \div b ELSE -((-a) \div b)
TruncRem(a, b) == a - b * TruncDiv(a, b)

\* EXTRACT(YEAR FROM iv) * 12 + EXTRACT(MONTH FROM iv)
ExtractMonths(iv) == TruncDiv(iv.month, 12) * 12 + TruncRem(iv.month, 12)

Min2(a, b) == IF a <= b THEN a ELSE b

\* What Least is not: LEAST(a, b), the cap c of the query window left out.
Least_NoWindow(a, b, c) == IF b = <<>> THEN a ELSE Min2(a, b[1])

\* LEAST(a, b, c) where b is nullable: NULL arguments are ignored.
Least(a, b, c) == IF b = <<>> THEN Min2(a, c) ELSE Min2(a, Min2(b[1], c))

\* What MonthsCharged is not: the second term without its "+ 1", which
\* leaves the end month uncharged.
MonthsCharged_EndExclusive(row, periodStart, periodEnd) ==
    Least( ExtractMonths(Age(periodEnd, row.start_date)),
           IF row.end_date = <<>> THEN <<>>
           ELSE <<ExtractMonths(Age(row.end_date[1], periodStart))>>,
           ExtractMonths(Age(periodEnd, periodStart)) + 1 )

\* The factor of monthly_cost in the SELECT list: $1 = periodEnd,
\* $2 = periodStart.
MonthsCharged(row, periodStart, periodEnd) ==
    Least( ExtractMonths(Age(periodEnd, row.start_date)),
           IF row.end_date = <<>> THEN <<>>
           ELSE <<ExtractMonths(Age(row.end_date[1], periodStart)) + 1>>,
           ExtractMonths(Age(periodEnd, periodStart)) + 1 )

\* The WHERE clause on the dates.
DateEligible(row, periodStart, periodEnd) ==
    /\ TimeLE(row.start_date, periodEnd)
    /\ (row.end_date = <<>> \/ TimeLE(periodStart, row.end_date[1]))

RECURSIVE SumCost(_, _, _)
\* SUM(monthly_cost * LEAST(...)) over a set of rows.
SumCost(rows, periodStart, periodEnd) ==
    IF rows = {} THEN 0
    ELSE LET r == CHOOSE x \in rows : TRUE
         IN  r.monthly_cost * MonthsCharged(r, periodStart, periodEnd)
               + SumCost(rows \ {r}, periodStart, periodEnd)

(***************************************************************************)
(* Bounds and input universes                                              *)
(***************************************************************************)

\* Number of rows the table is asked to insert in one run.
MaxIds == 2

\* uuid.Nil
NilUUID == "00000000-0000-0000-0000-000000000000"

OwnerUUIDs ==
    {"11111111-1111-1111-1111-111111111111", "22222222-2222-2222-2222-222222222222"}

\* The n-th value of uuid_generate_v4(): fresh on every insert.
IdOf(n) == "aaaaaaaa-0000-4000-8000-00000000000" \o ToString(n)

\* Texts that uuid.Parse accepts, and one that it does not.
WellFormedUUIDs == {NilUUID} \cup OwnerUUIDs \cup {IdOf(n) : n \in 1..(MaxIds + 1)}
MalformedUUID == "not-a-uuid"

\* uuid.Parse
uuidParse(s) ==
    IF s \in WellFormedUUIDs THEN [err |-> "", id |-> s]
    ELSE [err |-> "invalid UUID format", id |-> NilUUID]

ServiceNames == {"netflix", "spotify"}

\* What a client subscribes to: service, price and subscriber.  Two plans
\* share the owner, two share the service, two share the price.
Plans ==
    { [service_name |-> "netflix", monthly_cost |-> 100,
       user_id |-> "11111111-1111-1111-1111-111111111111"],
      [service_name |-> "spotify", monthly_cost |-> 50,
       user_id |-> "11111111-1111-1111-1111-111111111111"],
      [service_name |-> "netflix", monthly_cost |-> 50,
       user_id |-> "22222222-2222-2222-2222-222222222222"] }

\* Month tokens "MM-YYYY".
Tok_01_0001 == <<"0", "1", "-", "0", "0", "0", "1">>
Tok_12_2023 == <<"1", "2", "-", "2", "0", "2", "3">>
Tok_01_2024 == <<"0", "1", "-", "2", "0", "2", "4">>
Tok_03_2024 == <<"0", "3", "-", "2", "0", "2", "4">>
Tok_13_2024 == <<"1", "3", "-", "2", "0", "2", "4">>

WellFormedTokens == {Tok_01_0001, Tok_12_2023, Tok_01_2024, Tok_03_2024}
MalformedTokens == {Tok_13_2024}

(***************************************************************************)
(* Service layer: date validation and request conversion                   *)
(***************************************************************************)

\* The two errors of validateDates.
MissingStart == "start date is required"
InvalidRange == "end date cannot be before start date"

\* service.validateDates
validateDates(startDate, endDate) ==
    IF IsZero(startDate) THEN MissingStart
    ELSE IF endDate # <<>> /\ ~IsZero(endDate[1]) /\ Before(endDate[1], startDate)
         THEN InvalidRange
         ELSE ""

\* The common head of CreateSubscription and UpdateSubscription: parse both
\* tokens, validate, and build the model.Subscription handed to the
\* repository.  sub is meaningful only when err = "".
BuildSubscription(req) ==
    LET st == ParseMonthYear(req.start_date)
        en == ParseMonthYearPtr(req.end_date)
        sub == [ service_name |-> req.service_name,
                 monthly_cost |-> req.monthly_cost,
                 user_id      |-> req.user_id,
                 start_date   |-> st.t,
                 end_date     |-> en.t ]
    IN  IF st.err # ""
        THEN [err |-> "invalid start date format, expected MM-YYYY: " \o st.err,
              sub |-> sub]
        ELSE IF en.err # ""
        THEN [err |-> "invalid end date format, expected MM-YYYY: " \o en.err,
              sub |-> sub]
        ELSE [err |-> validateDates(st.t, en.t), sub |-> sub]

(***************************************************************************)
(* Repository: the statements on table subscriptions                       *)
(***************************************************************************)

\* A row of the table for a model.Subscription and a generated id.
RowOf(id, sub) ==
    [ id           |-> id,
      service_name |-> sub.service_name,
      monthly_cost |-> sub.monthly_cost,
      user_id      |-> sub.user_id,
      start_date   |-> sub.start_date,
      end_date     |-> sub.end_date ]

\* What RepoCreate is not: an INSERT whose id column is filled from the
\* request (its user_id) instead of the column default.
RepoCreate_IdFromRequest(rows, id, sub) == rows \cup {RowOf(sub.user_id, sub)}

\* INSERT ... RETURNING id
RepoCreate(rows, id, sub) == rows \cup {RowOf(id, sub)}

\* SELECT ... WHERE id = $1: nil when there is no row.
RepoGetByID(rows, id) ==
    IF \E r \in rows : r.id = id
    THEN <<CHOOSE r \in rows : r.id = id>>
    ELSE <<>>

\* What RepoUpdate is not: an UPDATE that patches, keeping the old end_date
\* when the new subscription has none.
RepoUpdate_Patch(rows, id, sub) ==
    IF \E r \in rows : r.id = id
    THEN [err |-> "",
          rows |-> { IF r.id = id
                     THEN RowOf(id, [sub EXCEPT !.end_date =
                                       IF sub.end_date = <<>> THEN r.end_date
                                       ELSE sub.end_date])
                     ELSE r : r \in rows }]
    ELSE [err |-> "subscription not found", rows |-> rows]

\* What RepoUpdate is not: an upsert, which inserts the row when no row has
\* the id.
RepoUpdate_Upsert(rows, id, sub) ==
    [err |-> "",
     rows |-> {r \in rows : r.id # id} \cup {RowOf(id, sub)}]

\* UPDATE ... SET <all five columns> WHERE id = $6, then RowsAffected.
RepoUpdate(rows, id, sub) ==
    IF \E r \in rows : r.id = id
    THEN [err |-> "",
          rows |-> {IF r.id = id THEN RowOf(id, sub) ELSE r : r \in rows}]
    ELSE [err |-> "subscription not found", rows |-> rows]

\* DELETE ... WHERE id = $1, then RowsAffected.
RepoDelete(rows, id) ==
    IF \E r \in rows : r.id = id
    THEN [err |-> "", rows |-> {r \in rows : r.id # id}]
    ELSE [err |-> "subscription not found", rows |-> rows]

\* The filter conditions appended to the summary query.
FilterMatches(row, filter) ==
    /\ (filter.user_id # NilUUID => row.user_id = filter.user_id)
    /\ (filter.service_name # "" => row.service_name = filter.service_name)

\* What repository.CalculateTotalCost is not: the query without COALESCE,
\* whose SUM over no rows is NULL and fails to scan into the int.
RepoCalculateTotalCost_NoCoalesce(rows, filter) ==
    LET sp == ParseMonthYear(filter.start_period)
        ep == ParseMonthYear(filter.end_period)
        periodStart == Date(sp.t.year, sp.t.month, 1, 0, 0, 0)
        periodEnd   == Date(ep.t.year, ep.t.month + 1, 0, 23, 59, 59)
        selected == {r \in rows : /\ DateEligible(r, periodStart, periodEnd)
                                  /\ FilterMatches(r, filter)}
    IN  IF sp.err # ""
        THEN [err |-> "invalid start period format, expected MM-YYYY: " \o sp.err,
              total |-> 0]
        ELSE IF ep.err # ""
        THEN [err |-> "invalid end period format, expected MM-YYYY: " \o ep.err,
              total |-> 0]
        ELSE IF selected = {}
        THEN [err |-> "failed to calculate total cost: converting NULL to int",
              total |-> 0]
        ELSE [err |-> "", total |-> SumCost(selected, periodStart, periodEnd)]

\* repository.CalculateTotalCost
RepoCalculateTotalCost(rows, filter) ==
    LET sp == ParseMonthYear(filter.start_period)
        ep == ParseMonthYear(filter.end_period)
        periodStart == Date(sp.t.year, sp.t.month, 1, 0, 0, 0)
        periodEnd   == Date(ep.t.year, ep.t.month + 1, 0, 23, 59, 59)
        selected == {r \in rows : /\ DateEligible(r, periodStart, periodEnd)
                                  /\ FilterMatches(r, filter)}
    IN  IF sp.err # ""
        THEN [err |-> "invalid start period format, expected MM-YYYY: " \o sp.err,
              total |-> 0]
        ELSE IF ep.err # ""
        THEN [err |-> "invalid end period format, expected MM-YYYY: " \o ep.err,
              total |-> 0]
        ELSE [err |-> "", total |-> SumCost(selected, periodStart, periodEnd)]

(***************************************************************************)
(* Service layer: operations                                               *)
(***************************************************************************)

\* service.CreateSubscription: the subscription to insert, or an error.
SvcCreateSubscription(req) == BuildSubscription(req)

\* service.GetSubscription
SvcGetSubscription(rows, id) ==
    LET found == RepoGetByID(rows, id)
    IN  IF found = <<>> THEN [err |-> "subscription not found", sub |-> <<>>]
        ELSE [err |-> "", sub |-> found]

\* What service.UpdateSubscription is not: the existence check (GetByID)
\* ahead of the dates.
SvcUpdateSubscription_ExistenceFirst(rows, id, req) ==
    LET b == BuildSubscription(req)
        u == RepoUpdate(rows, id, b.sub)
    IN  IF RepoGetByID(rows, id) = <<>>
        THEN [err |-> "subscription not found", rows |-> rows]
        ELSE IF b.err # "" THEN [err |-> b.err, rows |-> rows]
        ELSE IF u.err # ""
        THEN [err |-> "failed to update subscription: " \o u.err, rows |-> rows]
        ELSE [err |-> "", rows |-> u.rows]

\* service.UpdateSubscription, run without interruption: dates first, then
\* the existence check (GetByID), then the UPDATE.
SvcUpdateSubscription(rows, id, req) ==
    LET b == BuildSubscription(req)
        u == RepoUpdate(rows, id, b.sub)
    IN  IF b.err # "" THEN [err |-> b.err, rows |-> rows]
        ELSE IF RepoGetByID(rows, id) = <<>>
        THEN [err |-> "subscription not found", rows |-> rows]
        ELSE IF u.err # ""
        THEN [err |-> "failed to update subscription: " \o u.err, rows |-> rows]
        ELSE [err |-> "", rows |-> u.rows]

\* service.DeleteSubscription
SvcDeleteSubscription(rows, id) ==
    LET d == RepoDelete(rows, id)
    IN  IF d.err # ""
        THEN [err |-> "failed to delete subscription: " \o d.err, rows |-> rows]
        ELSE [err |-> "", rows |-> d.rows]

\* service.CalculateTotalCost
SvcCalculateTotalCost(rows, filter) ==
    LET c == RepoCalculateTotalCost(rows, filter)
    IN  IF c.err # ""
        THEN [err |-> "failed to calculate total cost: " \o c.err, total |-> 0]
        ELSE [err |-> "", total |-> c.total]

(***************************************************************************)
(* Handler layer                                                           *)
(***************************************************************************)

\* The binding tags of CreateSubscriptionRequest / UpdateSubscriptionRequest:
\* service_name, user_id and start_date required, monthly_cost required and
\* at least 1.
BindOK(req) ==
    /\ req.service_name # ""
    /\ req.monthly_cost >= 1
    /\ req.user_id # NilUUID
    /\ req.start_date # <<>>

\* model.formatMonthYearPtr
formatMonthYearPtr(t) == IF t = <<>> THEN <<>> ELSE <<formatMonthYear(t[1])>>

\* Subscription.MarshalJSON: the dates go out as month tokens.
JsonOf(row) ==
    [ id           |-> row.id,
      service_name |-> row.service_name,
      monthly_cost |-> row.monthly_cost,
      user_id      |-> row.user_id,
      start_date   |-> formatMonthYear(row.start_date),
      end_date     |-> formatMonthYearPtr(row.end_date) ]

\* What a handler was called with: the :id path parameter, the JSON body and
\* the query parameters, each present or not.
Request(id, body, query) == [id |-> id, body |-> body, query |-> query]

\* A handled request with the HTTP response it got: status,
\* ErrorResponse.Error (or ""), SummaryResponse.TotalCost, and the
\* subscription of the body if there is one.
Response(op, req, status, error, total, body) ==
    [ op |-> op, req |-> req, status |-> status, error |-> error,
      total |-> total, body |-> body ]

StatusOK == 200
StatusCreated == 201
StatusBadRequest == 400
StatusNotFound == 404
StatusInternalServerError == 500

\* The status the Get, Update and Delete handlers give a service error.
ErrorStatus(err) ==
    IF err = "subscription not found" THEN StatusNotFound
    ELSE StatusInternalServerError

\* handler.CalculateTotalCost up to the service call: the SummaryFilter built
\* from the query parameters, or the 400 answer.
SummaryFilterOf(q) ==
    LET u == IF q.user_id = "" THEN [err |-> "", id |-> NilUUID]
             ELSE uuidParse(q.user_id)
    IN  IF u.err # "" THEN [err |-> "invalid user_id format", filter |-> <<>>]
        ELSE IF q.start_period = <<>> \/ q.end_period = <<>>
        THEN [err |-> "start_period and end_period are required", filter |-> <<>>]
        ELSE [err |-> "",
              filter |-> << [ user_id      |-> u.id,
                              service_name |-> q.service_name,
                              start_period |-> q.start_period,
                              end_period   |-> q.end_period ] >>]

\* Requests a client can send.
WriteRequest(plan, start, end) ==
    [ service_name |-> plan.service_name, monthly_cost |-> plan.monthly_cost,
      user_id |-> plan.user_id, start_date |-> start, end_date |-> end ]

EndTokens == {<<>>} \cup {<<t>> : t \in WellFormedTokens}

\* Every plan with every well-formed start and optional end token.
WellFormedRequests ==
    {WriteRequest(p, s, e) : p \in Plans, s \in WellFormedTokens, e \in EndTokens}

\* One request for each binding rule that can fail, and one for each token
\* that can fail to parse.
IllFormedRequests ==
    LET ok == WriteRequest(CHOOSE p \in Plans : p.monthly_cost = 100,
                           Tok_01_2024, <<>>)
    IN  { [ok EXCEPT !.service_name = ""], [ok EXCEPT !.monthly_cost = 0],
          [ok EXCEPT !.user_id = NilUUID], [ok EXCEPT !.start_date = <<>>],
          [ok EXCEPT !.start_date = Tok_13_2024],
          [ok EXCEPT !.end_date = <<Tok_13_2024>>],
          [ok EXCEPT !.end_date = << <<>> >>] }

WriteRequests == WellFormedRequests \cup IllFormedRequests

IdParams == {IdOf(n) : n \in 1..(MaxIds + 1)} \cup {MalformedUUID}

SummaryQuery(user, service, start, end) ==
    [ user_id |-> user, service_name |-> service,
      start_period |-> start, end_period |-> end ]

\* Every owner and service filter (absent, or a value) with every pair of
\* well-formed period tokens, in either order.
WellFormedQueries ==
    { SummaryQuery(u, n, s, e) :
        u \in {"", NilUUID} \cup OwnerUUIDs, n \in {""} \cup ServiceNames,
        s \in WellFormedTokens, e \in WellFormedTokens }

IllFormedQueries ==
    LET ok == SummaryQuery("", "", Tok_01_2024, Tok_03_2024)
    IN  { [ok EXCEPT !.user_id = MalformedUUID],
          [ok EXCEPT !.start_period = <<>>], [ok EXCEPT !.end_period = <<>>],
          [ok EXCEPT !.start_period = Tok_13_2024],
          [ok EXCEPT !.end_period = Tok_13_2024] }

SummaryQueries == WellFormedQueries \cup IllFormedQueries

(***************************************************************************)
(* State                                                                   *)
(***************************************************************************)

VARIABLES
    store,    \* the rows of table subscriptions
    nextId,   \* how many ids uuid_generate_v4() has handed out
    resp,     \* the request just handled and its response: <<>> or <<r>>
    parsed,   \* a direct call of ParseMonthYear and what came of it: <<>> or <<c>>
    updating  \* the updates that have passed GetByID and not yet run their UPDATE

vars == <<store, nextId, resp, parsed, updating>>

Init ==
    /\ store = {}
    /\ nextId = 0
    /\ resp = <<>>
    /\ parsed = <<>>
    /\ updating = {}

\* POST /subscriptions
CreateSubscription(req) ==
    LET rq == Request(<<>>, <<req>>, <<>>)
        c  == SvcCreateSubscription(req)
        id == IdOf(nextId + 1)
    IN  /\ resp = <<>>
        /\ UNCHANGED <<parsed, updating>>
        /\ IF ~BindOK(req)
           THEN /\ resp' = <<Response("create", rq, StatusBadRequest,
                                      "binding failed", 0, <<>>)>>
                /\ UNCHANGED <<store, nextId>>
           ELSE IF c.err # ""
           THEN /\ resp' = <<Response("create", rq, StatusInternalServerError,
                                      c.err, 0, <<>>)>>
                /\ UNCHANGED <<store, nextId>>
           ELSE /\ nextId < MaxIds
                /\ store' = RepoCreate(store, id, c.sub)
                /\ nextId' = nextId + 1
                /\ resp' = <<Response("create", rq, StatusCreated, "", 0,
                                      <<JsonOf(RowOf(id, c.sub))>>)>>

\* GET /subscriptions/:id
GetSubscription(p) ==
    LET rq == Request(<<p>>, <<>>, <<>>)
        i  == uuidParse(p)
        g  == SvcGetSubscription(store, i.id)
    IN  /\ resp = <<>>
        /\ UNCHANGED <<parsed, updating>>
        /\ UNCHANGED <<store, nextId>>
        /\ resp' =
             IF i.err # ""
             THEN <<Response("get", rq, StatusBadRequest,
                             "invalid subscription ID", 0, <<>>)>>
             ELSE IF g.err # ""
             THEN <<Response("get", rq, ErrorStatus(g.err), g.err, 0, <<>>)>>
             ELSE <<Response("get", rq, StatusOK, "", 0, <<JsonOf(g.sub[1])>>)>>

\* PUT /subscriptions/:id
UpdateSubscription(p, req) ==
    LET rq == Request(<<p>>, <<req>>, <<>>)
        i  == uuidParse(p)
        u  == SvcUpdateSubscription(store, i.id, req)
    IN  /\ resp = <<>>
        /\ UNCHANGED <<parsed, updating>>
        /\ UNCHANGED nextId
        /\ IF i.err # ""
           THEN /\ resp' = <<Response("update", rq, StatusBadRequest,
                                      "invalid subscription ID", 0, <<>>)>>
                /\ UNCHANGED store
           ELSE IF ~BindOK(req)
           THEN /\ resp' = <<Response("update", rq, StatusBadRequest,
                                      "binding failed", 0, <<>>)>>
                /\ UNCHANGED store
           ELSE IF u.err # ""
           THEN /\ resp' = <<Response("update", rq, ErrorStatus(u.err),
                                      u.err, 0, <<>>)>>
                /\ UNCHANGED store
           ELSE /\ resp' = <<Response("update", rq, StatusOK, "", 0, <<>>)>>
                /\ store' = u.rows

\* DELETE /subscriptions/:id
DeleteSubscription(p) ==
    LET rq == Request(<<p>>, <<>>, <<>>)
        i  == uuidParse(p)
        d  == SvcDeleteSubscription(store, i.id)
    IN  /\ resp = <<>>
        /\ UNCHANGED <<parsed, updating>>
        /\ UNCHANGED nextId
        /\ IF i.err # ""
           THEN /\ resp' = <<Response("delete", rq, StatusBadRequest,
                                      "invalid subscription ID", 0, <<>>)>>
                /\ UNCHANGED store
           ELSE IF d.err # ""
           THEN /\ resp' = <<Response("delete", rq, ErrorStatus(d.err),
                                      d.err, 0, <<>>)>>
                /\ UNCHANGED store
           ELSE /\ resp' = <<Response("delete", rq, StatusOK, "", 0, <<>>)>>
                /\ store' = d.rows

\* What the summary handler is not: one that consumes the table it sums.
CalculateTotalCost_Consuming(q) ==
    LET rq == Request(<<>>, <<>>, <<q>>)
        f  == SummaryFilterOf(q)
        c  == SvcCalculateTotalCost(store, f.filter[1])
    IN  /\ resp = <<>>
        /\ UNCHANGED <<nextId, parsed, updating>>
        /\ store' = {}
        /\ resp' =
             IF f.err # ""
             THEN <<Response("summary", rq, StatusBadRequest, f.err, 0, <<>>)>>
             ELSE IF c.err # ""
             THEN <<Response("summary", rq, StatusInternalServerError,
                             c.err, 0, <<>>)>>
             ELSE <<Response("summary", rq, StatusOK, "", c.total, <<>>)>>

\* GET /subscriptions/summary
CalculateTotalCost(q) ==
    LET rq == Request(<<>>, <<>>, <<q>>)
        f  == SummaryFilterOf(q)
        c  == SvcCalculateTotalCost(store, f.filter[1])
    IN  /\ resp = <<>>
        /\ UNCHANGED <<parsed, updating>>
        /\ UNCHANGED <<store, nextId>>
        /\ resp' =
             IF f.err # ""
             THEN <<Response("summary", rq, StatusBadRequest, f.err, 0, <<>>)>>
             ELSE IF c.err # ""
             THEN <<Response("summary", rq, StatusInternalServerError,
                             c.err, 0, <<>>)>>
             ELSE <<Response("summary", rq, StatusOK, "", c.total, <<>>)>>

\* The response has gone out; the next request is handled after it.
ResponseSent ==
    /\ resp # <<>>
    /\ resp' = <<>>
    /\ UNCHANGED <<store, nextId, parsed, updating>>

Next ==
    \/ \E req \in WriteRequests : CreateSubscription(req)
    \/ \E p \in IdParams : GetSubscription(p)
    \/ \E p \in IdParams, req \in WriteRequests : UpdateSubscription(p, req)
    \/ \E p \in IdParams : DeleteSubscription(p)
    \/ \E q \in SummaryQueries : CalculateTotalCost(q)
    \/ ResponseSent

Spec == Init /\ [][Next]_vars

(***************************************************************************)
(* The parser called directly: month tokens of every shape                 *)
(***************************************************************************)

YearDigits ==
    { <<"0", "0", "0", "0">>, <<"0", "0", "0", "1">>, <<"1", "9", "9", "9">>,
      <<"2", "0", "2", "3">>, <<"2", "0", "2", "4">>, <<"9", "9", "9", "9">> }

\* Every text "dd-dddd" with a month field 00..19 and one of the years above:
\* the months 01..12 are the valid tokens, 00 and 13..19 are out of range.
ShapedTokens ==
    { <<a, b, "-">> \o y : a \in {"0", "1"}, b \in {DigitChars[i] : i \in 1..10},
                          y \in YearDigits }

Tok_00_2024 == <<"0", "0", "-", "2", "0", "2", "4">>
Tok_2024_01 == <<"2", "0", "2", "4", "-", "0", "1">>

\* Texts of another shape: empty, year first, a one-digit month, a two-digit
\* year, a fifth year digit, another separator, a month name, a leading blank.
OddTokens ==
    { <<>>, Tok_2024_01,
      <<"1", "-", "2", "0", "2", "4">>,
      <<"0", "1", "-", "2", "4">>,
      <<"0", "1", "-", "2", "0", "2", "4", "5">>,
      <<"0", "1", "/", "2", "0", "2", "4">>,
      <<"J", "a", "n", "-", "2", "0", "2", "4">>,
      <<" ", "0", "1", "-", "2", "0", "2", "4">> }

ParserTokens == ShapedTokens \cup OddTokens

\* A call of one of the two parsers with its argument and its result; the
\* date it returned has not been formatted yet.
ParserCall(fn, arg, result) ==
    [fn |-> fn, arg |-> arg, result |-> result, formatted |-> <<>>]

\* model.ParseMonthYear(tok)
ParseToken(tok) ==
    /\ parsed = <<>>
    /\ parsed' = <<ParserCall("ParseMonthYear", tok, ParseMonthYear(tok))>>
    /\ UNCHANGED <<store, nextId, resp, updating>>

\* model.ParseMonthYearPtr(p), p nil or a pointer to a text
ParseTokenPtr(p) ==
    /\ parsed = <<>>
    /\ parsed' = <<ParserCall("ParseMonthYearPtr", p, ParseMonthYearPtr(p))>>
    /\ UNCHANGED <<store, nextId, resp, updating>>

\* The date a parser returned goes back out through formatMonthYear
\* (formatMonthYearPtr for a pointer), as MarshalJSON does.
FormatParsed ==
    /\ parsed # <<>>
    /\ parsed[1].result.err = ""
    /\ parsed[1].formatted = <<>>
    /\ parsed' =
         << [ parsed[1] EXCEPT !.formatted =
                IF parsed[1].fn = "ParseMonthYear"
                THEN <<formatMonthYear(parsed[1].result.t)>>
                ELSE <<formatMonthYearPtr(parsed[1].result.t)>> ] >>
    /\ UNCHANGED <<store, nextId, resp, updating>>

\* The caller is done with the result.
ParsedDropped ==
    /\ parsed # <<>>
    /\ parsed' = <<>>
    /\ UNCHANGED <<store, nextId, resp, updating>>

ParserNext ==
    \/ \E tok \in ParserTokens : ParseToken(tok)
    \/ \E p \in {<<>>} \cup {<<tok>> : tok \in ParserTokens} : ParseTokenPtr(p)
    \/ FormatParsed
    \/ ParsedDropped

ParserSpec == Init /\ [][ParserNext]_vars

(***************************************************************************)
(* The summary over a table of at most one row, months of two years        *)
(***************************************************************************)

Tok_06_2023 == <<"0", "6", "-", "2", "0", "2", "3">>
Tok_02_2024 == <<"0", "2", "-", "2", "0", "2", "4">>
Tok_12_2024 == <<"1", "2", "-", "2", "0", "2", "4">>

PeriodTokens == WellFormedTokens \cup {Tok_06_2023, Tok_02_2024, Tok_12_2024}

\* The tables one accepted POST /subscriptions leaves behind, and the empty
\* table.
OneRowStores ==
    LET reqs == { WriteRequest(p, s, e) :
                    p \in Plans, s \in PeriodTokens,
                    e \in {<<>>} \cup {<<t>> : t \in PeriodTokens} }
    IN  { {RowOf(IdOf(1), SvcCreateSubscription(r).sub)} :
            r \in {x \in reqs : SvcCreateSubscription(x).err = ""} }
        \cup {{}}

PeriodQueries ==
    { SummaryQuery(u, n, s, e) :
        u \in {"", "11111111-1111-1111-1111-111111111111"},
        n \in {"", "netflix"}, s \in PeriodTokens, e \in PeriodTokens }
    \cup IllFormedQueries

SummaryInit ==
    /\ store \in OneRowStores
    /\ nextId = Cardinality(store)
    /\ resp = <<>>
    /\ parsed = <<>>
    /\ updating = {}

SummaryNext ==
    \/ \E q \in PeriodQueries : CalculateTotalCost(q)
    \/ ResponseSent

SummarySpec == SummaryInit /\ [][SummaryNext]_vars

(***************************************************************************)
(* Requests in parallel: an update is its existence check, then its UPDATE *)
(***************************************************************************)

\* How many updates can be between their GetByID and their UPDATE at once.
MaxUpdating == 2

\* service.UpdateSubscription up to and including the existence check: the
\* dates, then GetByID on the table as it is now.
SvcUpdateChecked(rows, id, req) ==
    LET b == BuildSubscription(req)
    IN  IF b.err # "" THEN [err |-> b.err, sub |-> b.sub]
        ELSE IF RepoGetByID(rows, id) = <<>>
        THEN [err |-> "subscription not found", sub |-> b.sub]
        ELSE [err |-> "", sub |-> b.sub]

\* The rest of service.UpdateSubscription: repo.Update on the table as it is
\* by then, its error wrapped.
SvcUpdateWritten(rows, id, sub) ==
    LET u == RepoUpdate(rows, id, sub)
    IN  IF u.err # ""
        THEN [err |-> "failed to update subscription: " \o u.err, rows |-> rows]
        ELSE [err |-> "", rows |-> u.rows]

\* Two requests that are accepted and one whose start token is not.
ConcurrentRequests ==
    { WriteRequest(CHOOSE p \in Plans : p.monthly_cost = 100, Tok_01_2024, <<>>),
      WriteRequest(CHOOSE p \in Plans : p.service_name = "spotify",
                   Tok_12_2023, <<Tok_03_2024>>),
      WriteRequest(CHOOSE p \in Plans : p.monthly_cost = 100, Tok_13_2024, <<>>) }

ConcurrentIds == {IdOf(n) : n \in 1..MaxIds}

\* PUT /subscriptions/:id, first part: the handler parses the id and binds
\* the body, the service checks the dates and that the row exists.  A
\* request that fails is answered; one that passes goes on to its UPDATE.
UpdateChecked(p, req) ==
    LET rq == Request(<<p>>, <<req>>, <<>>)
        i  == uuidParse(p)
        c  == SvcUpdateChecked(store, i.id, req)
    IN  /\ resp = <<>>
        /\ UNCHANGED <<store, nextId, parsed>>
        /\ IF i.err # ""
           THEN /\ resp' = <<Response("update", rq, StatusBadRequest,
                                      "invalid subscription ID", 0, <<>>)>>
                /\ UNCHANGED updating
           ELSE IF ~BindOK(req)
           THEN /\ resp' = <<Response("update", rq, StatusBadRequest,
                                      "binding failed", 0, <<>>)>>
                /\ UNCHANGED updating
           ELSE IF c.err # ""
           THEN /\ resp' = <<Response("update", rq, ErrorStatus(c.err),
                                      c.err, 0, <<>>)>>
                /\ UNCHANGED updating
           ELSE /\ Cardinality(updating) < MaxUpdating
                /\ [id |-> i.id, req |-> req, sub |-> c.sub] \notin updating
                /\ updating' = updating \cup {[id |-> i.id, req |-> req, sub |-> c.sub]}
                /\ UNCHANGED resp

\* PUT /subscriptions/:id, second part: repo.Update and the answer.
UpdateWritten(u) ==
    LET rq == Request(<<u.id>>, <<u.req>>, <<>>)
        w  == SvcUpdateWritten(store, u.id, u.sub)
    IN  /\ resp = <<>>
        /\ u \in updating
        /\ updating' = updating \ {u}
        /\ UNCHANGED <<nextId, parsed>>
        /\ IF w.err # ""
           THEN /\ resp' = <<Response("update", rq, ErrorStatus(w.err),
                                      w.err, 0, <<>>)>>
                /\ UNCHANGED store
           ELSE /\ resp' = <<Response("update", rq, StatusOK, "", 0, <<>>)>>
                /\ store' = w.rows

ConcurrentNext ==
    \/ \E req \in ConcurrentRequests : CreateSubscription(req)
    \/ \E p \in ConcurrentIds : DeleteSubscription(p)
    \/ \E p \in ConcurrentIds, req \in ConcurrentRequests : UpdateChecked(p, req)
    \/ \E u \in updating : UpdateWritten(u)
    \/ ResponseSent

ConcurrentSpec == Init /\ [][ConcurrentNext]_vars

(***************************************************************************)
(* Vocabulary of the properties                                            *)
(***************************************************************************)

\* A calendar month as a number: months since year 0.
MonthIndex(t) == t.year * 12 + (t.month - 1)

\* The month a well-formed token names.
TokenMonth(tok) == MonthIndex(ParseMonthYear(tok).t)

TokenAccepted(tok) == ParseMonthYear(tok).err = ""

Max2(a, b) == IF a >= b THEN a ELSE b

\* The request just handled was of kind op.
Handled(op) == resp # <<>> /\ resp[1].op = op

\* A summary request was answered with a total.
SummaryAnswered == Handled("summary") /\ resp[1].status = StatusOK

\* The query of the summary request just handled, and its period in months.
Query == resp[1].req.query[1]
QueryStart == TokenMonth(Query.start_period)
QueryEnd == TokenMonth(Query.end_period)

\* The filters as the caller states them: a user_id parameter that is
\* present selects the rows of that owner, a non-empty service_name the rows
\* of that service, an absent one excludes nothing.
RequestedRows(q) ==
    { r \in store : /\ (q.user_id # "" => r.user_id = q.user_id)
                    /\ (q.service_name # "" => r.service_name = q.service_name) }

\* Number of calendar months lying both in the row's active interval
\* [start, end] (unbounded above without an end) and in the period [ps, pe].
OverlapMonths(row, ps, pe) ==
    LET lo == Max2(ps, MonthIndex(row.start_date))
        hi == IF row.end_date = <<>> THEN pe
              ELSE Min2(pe, MonthIndex(row.end_date[1]))
    IN  IF hi >= lo THEN hi - lo + 1 ELSE 0

RECURSIVE OverlapCost(_, _, _)
\* Sum over rows of overlap months times monthly cost.
OverlapCost(rows, ps, pe) ==
    IF rows = {} THEN 0
    ELSE LET r == CHOOSE x \in rows : TRUE
         IN  r.monthly_cost * OverlapMonths(r, ps, pe)
               + OverlapCost(rows \ {r}, ps, pe)

\* The write request (create or update) just handled got past the path
\* parameter and the binding, so the service was called with its body.
WriteReachedService ==
    /\ Handled("create") \/ Handled("update")
    /\ resp[1].status # StatusBadRequest

Body == resp[1].req.body[1]

(***************************************************************************)
(* C1..C7: the summary                                                     *)
(***************************************************************************)

\* C1: for a period with periodStart <= periodEnd, the total is the sum,
\* over the subscriptions the filters select, of monthlyCost times the number
\* of calendar months common to the subscription's active interval and the
\* period.  (Stated for owner filters other than the all-zero UUID, whose
\* treatment is C7's subject.)
C1_TotalIsOverlapTimesCost ==
    (SummaryAnswered /\ QueryStart <= QueryEnd /\ Query.user_id # NilUUID)
        => resp[1].total = OverlapCost(RequestedRows(Query), QueryStart, QueryEnd)

\* The table holds one subscription, started 01-2024 and queried over exactly
\* 01-2024: one month overlaps, and the total is 0.
C1_Observed ==
    /\ SummaryAnswered
    /\ Query = SummaryQuery("", "", Tok_01_2024, Tok_01_2024)
    /\ \E r \in store :
          /\ store = {r}
          /\ r.start_date = Date(2024, 1, 1, 0, 0, 0) /\ r.end_date = <<>>
          /\ OverlapMonths(r, QueryStart, QueryEnd) = 1
    /\ resp[1].total = 0

\* C2: an open-ended subscription whose start month S lies inside the period
\* (periodStart <= S <= periodEnd) contributes monthlyCost times the number
\* of months from S through periodEnd inclusive.
C2_OpenEndedChargedFromStart ==
    SummaryAnswered =>
        \A r \in store :
            ( /\ RequestedRows(Query) = {r}
              /\ r.end_date = <<>>
              /\ QueryStart <= MonthIndex(r.start_date)
              /\ MonthIndex(r.start_date) <= QueryEnd )
            => resp[1].total
                 = r.monthly_cost * (QueryEnd - MonthIndex(r.start_date) + 1)

\* An open-ended subscription of 100 a month started 01-2024, queried over
\* 12-2023..03-2024: three months (Jan, Feb, Mar) overlap, the total is 200.
C2_Observed ==
    /\ SummaryAnswered
    /\ Query = SummaryQuery("", "", Tok_12_2023, Tok_03_2024)
    /\ \E r \in store :
          /\ store = {r}
          /\ r.start_date = Date(2024, 1, 1, 0, 0, 0) /\ r.end_date = <<>>
          /\ r.monthly_cost = 100
    /\ resp[1].total = 200

\* C3: a query over the single month M..M charges a subscription whose active
\* interval contains M exactly one monthlyCost.
C3_SingleMonthChargesOnce ==
    (SummaryAnswered /\ QueryStart = QueryEnd) =>
        \A r \in store :
            ( /\ RequestedRows(Query) = {r}
              /\ MonthIndex(r.start_date) <= QueryStart
              /\ (r.end_date = <<>> \/ QueryStart <= MonthIndex(r.end_date[1])) )
            => resp[1].total = r.monthly_cost

\* A subscription active 01-2024..03-2024 queried over 01-2024..01-2024 is
\* charged nothing.
C3_Observed ==
    /\ SummaryAnswered
    /\ Query = SummaryQuery("", "", Tok_01_2024, Tok_01_2024)
    /\ \E r \in store :
          /\ store = {r}
          /\ r.start_date = Date(2024, 1, 1, 0, 0, 0)
          /\ r.end_date = <<Date(2024, 3, 1, 0, 0, 0)>>
    /\ resp[1].total = 0

\* C4: for a period with periodStart <= periodEnd, a subscription is never
\* charged more months than lie both in its own active interval and in the
\* period.
C4_NeverChargedBeyondOverlap ==
    (SummaryAnswered /\ QueryStart <= QueryEnd) =>
        \A r \in store :
            RequestedRows(Query) = {r}
            => resp[1].total
                 <= r.monthly_cost * OverlapMonths(r, QueryStart, QueryEnd)

\* A subscription active in 01-2024 only, queried over 12-2023..03-2024, is
\* charged two months.
C4_Observed ==
    /\ SummaryAnswered
    /\ Query = SummaryQuery("", "", Tok_12_2023, Tok_03_2024)
    /\ \E r \in store :
          /\ store = {r}
          /\ r.start_date = Date(2024, 1, 1, 0, 0, 0)
          /\ r.end_date = <<Date(2024, 1, 1, 0, 0, 0)>>
          /\ OverlapMonths(r, QueryStart, QueryEnd) = 1
          /\ resp[1].total = 2 * r.monthly_cost

\* C5: for every table content, every pair of well-formed period tokens (in
\* either order) and every filter combination, the summary answers with a
\* nonnegative total.
C5_TotalNonnegative ==
    ( /\ Handled("summary")
      /\ Query.user_id # MalformedUUID
      /\ TokenAccepted(Query.start_period) /\ TokenAccepted(Query.end_period) )
    => (resp[1].status = StatusOK /\ resp[1].total >= 0)

\* An open-ended subscription started 12-2023, queried over the inverted
\* period 03-2024..12-2023, yields a negative total.
C5_Observed ==
    /\ SummaryAnswered
    /\ Query.start_period = Tok_03_2024 /\ Query.end_period = Tok_12_2023
    /\ \E r \in store : store = {r} /\ resp[1].total = -(r.monthly_cost)

\* C6: when the period is inverted (the month of the end token is earlier
\* than the month of the start token) the summary returns no error and a
\* total of 0, whatever the table holds.
C6_InvertedPeriodIsZero ==
    ( /\ Handled("summary")
      /\ Query.user_id # MalformedUUID
      /\ TokenAccepted(Query.start_period) /\ TokenAccepted(Query.end_period)
      /\ QueryEnd < QueryStart )
    => (resp[1].status = StatusOK /\ resp[1].error = "" /\ resp[1].total = 0)

\* A subscription started 12-2023 and still running, queried without filters
\* over the inverted period 03-2024..12-2023, yields a total other than 0.
C6_Observed ==
    /\ SummaryAnswered
    /\ Query = SummaryQuery("", "", Tok_03_2024, Tok_12_2023)
    /\ QueryEnd < QueryStart
    /\ \E r \in store :
          r.start_date = Date(2023, 12, 1, 0, 0, 0) /\ r.end_date = <<>>
    /\ resp[1].total # 0

\* C7: for every owner filter the caller supplies (any UUID, the all-zero one
\* included) and every service filter, the total is that of aggregating only
\* the rows whose owner equals the owner filter and whose service equals the
\* service filter; a filter that is not supplied excludes nothing.
C7_FiltersSelectRows ==
    SummaryAnswered =>
        resp[1].total
          = RepoCalculateTotalCost(
                RequestedRows(Query),
                [ user_id |-> NilUUID, service_name |-> "",
                  start_period |-> Query.start_period,
                  end_period |-> Query.end_period ]).total

\* The caller supplies the all-zero UUID as owner filter; no row has that
\* owner, and the total is not 0.
C7_Observed ==
    /\ SummaryAnswered
    /\ Query.user_id = NilUUID
    /\ RequestedRows(Query) = {}
    /\ resp[1].total # 0

(***************************************************************************)
(* C8..C10: date validation                                                *)
(***************************************************************************)

\* C8: after any sequence of creates, updates and deletes, every stored row
\* has no end date or an end date that is not earlier than its start date.
C8_StoredEndNotBeforeStart ==
    \A r \in store :
        r.end_date # <<>> => ~Before(r.end_date[1], r.start_date)

\* A row created from start 01-2024 and end 01-0001.
C8_Observed ==
    \E r \in store :
        /\ r.start_date = Date(2024, 1, 1, 0, 0, 0)
        /\ r.end_date = <<Date(1, 1, 1, 0, 0, 0)>>

\* C9: for every start month and optional end month the parser can return,
\* validation fails with the invalid-range error if and only if the end is
\* present and strictly earlier than the start, and it never fails when the
\* end is absent.
C9_InvalidRangeIffEndBeforeStart ==
    ( /\ WriteReachedService
      /\ TokenAccepted(Body.start_date)
      /\ ParseMonthYearPtr(Body.end_date).err = "" )
    => LET st == ParseMonthYear(Body.start_date).t
           en == ParseMonthYearPtr(Body.end_date).t
       IN  /\ (resp[1].error = InvalidRange) <=> (en # <<>> /\ Before(en[1], st))
           /\ en = <<>> => resp[1].error \notin {InvalidRange, MissingStart}

\* Start 01-2024 with end 01-0001 passes validation: the request is answered
\* 201 Created.
C9_Observed ==
    /\ Handled("create")
    /\ Body.start_date = Tok_01_2024 /\ Body.end_date = <<Tok_01_0001>>
    /\ resp[1].status = StatusCreated

\* C10: the missing-start error is returned only when the start is unset: a
\* create or update whose start token the parser accepts is never rejected
\* with it.
C10_AcceptedStartNeverMissing ==
    (WriteReachedService /\ TokenAccepted(Body.start_date))
        => resp[1].error # MissingStart

\* The start token 01-0001 is accepted by the parser and the request is
\* rejected with the missing-start error.
C10_Observed ==
    /\ Handled("create")
    /\ Body.start_date = Tok_01_0001
    /\ TokenAccepted(Body.start_date)
    /\ resp[1].status = StatusInternalServerError
    /\ resp[1].error = MissingStart

(***************************************************************************)
(* C11..C13: what the operations change                                    *)
(***************************************************************************)

\* An update request was answered 200.
UpdateSucceeded == Handled("update") /\ resp[1].status = StatusOK

\* The row r carries the fields of the write request b: service, cost and
\* owner as given, the start month of b's start token, and the end month of
\* b's end token, or no end date when b has none.
CarriesRequest(r, b) ==
    /\ r.service_name = b.service_name
    /\ r.monthly_cost = b.monthly_cost
    /\ r.user_id = b.user_id
    /\ MonthIndex(r.start_date) = TokenMonth(b.start_date)
    /\ IF b.end_date = <<>> \/ b.end_date[1] = <<>>
       THEN r.end_date = <<>>
       ELSE /\ r.end_date # <<>>
            /\ MonthIndex(r.end_date[1]) = TokenMonth(b.end_date[1])

\* C11: a successful UpdateSubscription(id, req) is a full replace: after it
\* the one row with that id has exactly req's service name, monthly cost,
\* owner, start date and end date (no end date when req omits it), and every
\* other stored row is as it was.
C11_UpdateIsFullReplace ==
    [][ UpdateSucceeded' =>
          LET id == resp'[1].req.id[1]
              b  == resp'[1].req.body[1]
          IN  /\ Cardinality({r \in store' : r.id = id}) = 1
              /\ \A r \in store' : r.id = id => CarriesRequest(r, b)
              /\ {r \in store' : r.id # id} = {r \in store : r.id # id} ]_vars

\* An update without an end date was answered 200 on a table of two rows:
\* the row of that id has the request's fields and no end date, the other
\* row is still there.
C11_Observed ==
    /\ UpdateSucceeded
    /\ Body.end_date = <<>>
    /\ Cardinality(store) = 2
    /\ \E r \in store :
          /\ r.id = resp[1].req.id[1]
          /\ CarriesRequest(r, Body)
          /\ r.end_date = <<>>

\* The ids uuid_generate_v4() has handed out so far.
IssuedIds == {IdOf(n) : n \in 1..nextId}

StoredIds(rows) == {r.id : r \in rows}

\* C12: after any sequence of creates, updates and deletes no two stored rows
\* share an id; every stored id is one the store generated at an insert, and
\* a create adds exactly one row under the id generated for it, whatever the
\* request says; and no update changes the ids in the table.
C12_IdsUniqueAssignedImmutable ==
    /\ [](\A r1, r2 \in store : r1.id = r2.id => r1 = r2)
    /\ [](StoredIds(store) \subseteq IssuedIds)
    /\ [][ (Handled("create")' /\ resp'[1].status = StatusCreated) =>
             /\ IdOf(nextId') \notin StoredIds(store)
             /\ \E r \in store' : /\ r.id = IdOf(nextId')
                                  /\ r.id # resp'[1].req.body[1].user_id
                                  /\ store' = store \cup {r} ]_vars
    /\ [][ Handled("update")' => StoredIds(store') = StoredIds(store) ]_vars

\* Two rows with the two generated ids, just after a successful update of
\* the second.
C12_Observed ==
    /\ UpdateSucceeded
    /\ resp[1].req.id[1] = IdOf(2)
    /\ StoredIds(store) = {IdOf(1), IdOf(2)}
    /\ Cardinality(store) = 2

\* The total a second summary request with the query of the one just
\* answered would get from the table as it is now.
RepeatedTotal ==
    SvcCalculateTotalCost(store, SummaryFilterOf(Query).filter[1]).total

\* C13: CalculateTotalCost never modifies the store: the table is the same
\* before and after every summary request, answered with a total or with an
\* error, so the same request repeated with no write in between is answered
\* with the same total.
C13_SummaryLeavesStoreAlone ==
    /\ [][ Handled("summary")' => (store' = store /\ nextId' = nextId) ]_vars
    /\ [](SummaryAnswered => resp[1].total = RepeatedTotal)

\* A summary over a table of two rows was answered with a positive total,
\* and the two rows are still there to give the same total again.
C13_Observed ==
    /\ SummaryAnswered
    /\ Cardinality(store) = 2
    /\ resp[1].total > 0
    /\ resp[1].total = RepeatedTotal

(***************************************************************************)
(* C14..C16: the summary, continued                                        *)
(***************************************************************************)

\* The summary request just handled named two period tokens the parser
\* accepts (and a well-formed user_id, if any), so the query was run.
PeriodValid ==
    /\ Handled("summary")
    /\ resp[1].status # StatusBadRequest
    /\ TokenAccepted(Query.start_period)
    /\ TokenAccepted(Query.end_period)

\* The row is excluded by the filters of the SummaryFilter f: the owner
\* filter is set (not the zero UUID) and differs from the row's owner, or
\* the service filter is set (non-empty) and differs from the row's service.
ExcludedByFilter(r, f) ==
    \/ f.user_id # NilUUID /\ r.user_id # f.user_id
    \/ f.service_name # "" /\ r.service_name # f.service_name

\* The row fails the eligibility test for the months ps..pe: it starts after
\* the period's last month, or it ended before the period's first month.
Ineligible(r, ps, pe) ==
    \/ MonthIndex(r.start_date) > pe
    \/ r.end_date # <<>> /\ MonthIndex(r.end_date[1]) < ps

\* C14: for any valid period tokens, the summary over an empty table, or
\* over a table whose rows are all excluded by the filters or by the
\* eligibility test, is 0 and is not an error.
C14_NothingSelectedIsZero ==
    ( /\ PeriodValid
      /\ \A r \in store :
            \/ ExcludedByFilter(r, SummaryFilterOf(Query).filter[1])
            \/ Ineligible(r, QueryStart, QueryEnd) )
    => /\ resp[1].status = StatusOK
       /\ resp[1].error = ""
       /\ resp[1].total = 0

\* A table of two rows, one excluded by the filters and one by the
\* eligibility test, answered 200 with total 0.
C14_Observed ==
    /\ PeriodValid
    /\ Cardinality(store) = 2
    /\ \E r1, r2 \in store :
          /\ r1 # r2
          /\ ExcludedByFilter(r1, SummaryFilterOf(Query).filter[1])
          /\ ~Ineligible(r1, QueryStart, QueryEnd)
          /\ Ineligible(r2, QueryStart, QueryEnd)
          /\ ~ExcludedByFilter(r2, SummaryFilterOf(Query).filter[1])
    /\ resp[1].status = StatusOK
    /\ resp[1].total = 0

\* C15: a subscription that started before the period's first month and
\* ends in a month E of the period (periodStart <= E <= periodEnd)
\* contributes its monthly cost times the months from periodStart through E,
\* the end month included; so 06-2023..02-2024 at 50 a month, queried over
\* 01-2024..12-2024, contributes 100.
C15_ChargedThroughEndMonth ==
    SummaryAnswered =>
        \A r \in store :
            ( /\ RequestedRows(Query) = {r}
              /\ r.end_date # <<>>
              /\ MonthIndex(r.start_date) < QueryStart
              /\ QueryStart <= MonthIndex(r.end_date[1])
              /\ MonthIndex(r.end_date[1]) <= QueryEnd )
            => resp[1].total
                 = r.monthly_cost * (MonthIndex(r.end_date[1]) - QueryStart + 1)

\* The subscription 06-2023..02-2024 at 50 a month, queried over
\* 01-2024..12-2024: the total is 100.
C15_Observed ==
    /\ SummaryAnswered
    /\ Query.start_period = Tok_01_2024 /\ Query.end_period = Tok_12_2024
    /\ \E r \in store :
          /\ RequestedRows(Query) = {r}
          /\ r.monthly_cost = 50
          /\ r.start_date = Date(2023, 6, 1, 0, 0, 0)
          /\ r.end_date = <<Date(2024, 2, 1, 0, 0, 0)>>
    /\ resp[1].total = 100

\* C16: for a period with periodStart <= periodEnd, the months charged for
\* one subscription never exceed the width of the period in months
\* (periodEnd - periodStart + 1), however long the subscription has been or
\* will be active.
C16_ChargedWithinPeriodWidth ==
    (SummaryAnswered /\ QueryStart <= QueryEnd) =>
        \A r \in store :
            RequestedRows(Query) = {r}
            => resp[1].total <= r.monthly_cost * (QueryEnd - QueryStart + 1)

\* An open-ended subscription running since 06-2023, queried over the two
\* months 01-2024..02-2024, is charged two months.
C16_Observed ==
    /\ SummaryAnswered
    /\ Query.start_period = Tok_01_2024 /\ Query.end_period = Tok_02_2024
    /\ \E r \in store :
          /\ RequestedRows(Query) = {r}
          /\ r.start_date = Date(2023, 6, 1, 0, 0, 0)
          /\ r.end_date = <<>>
          /\ resp[1].total = r.monthly_cost * 2

(***************************************************************************)
(* C17..C18: month tokens                                                  *)
(***************************************************************************)

\* ParseMonthYear was called directly, with this text.
ParseCalled == parsed # <<>> /\ parsed[1].fn = "ParseMonthYear"
ParsedText == parsed[1].arg

\* The text has the fixed form MM-YYYY: seven characters, two digits, a
\* hyphen, four digits.
HasTokenForm(tok) ==
    /\ Len(tok) = 7
    /\ tok[3] = "-"
    /\ \A i \in {1, 2, 4, 5, 6, 7} : isDigit(tok[i])

\* The month and year fields of a text of that form.
MonthField(tok) == digitVal(tok[1]) * 10 + digitVal(tok[2])
YearField(tok) ==
    digitVal(tok[4]) * 1000 + digitVal(tok[5]) * 100
      + digitVal(tok[6]) * 10 + digitVal(tok[7])

\* C17: ParseMonthYear succeeds only on texts of the form MM-YYYY with a
\* month 01..12, and then returns the first day of that month; on the empty
\* text, on month 00 or 13 and on a year-first text ("13-2024", "00-2024",
\* "", "2024-01") it returns an error and no date.
C17_ParserAcceptsOnlyMonthTokens ==
    ParseCalled =>
        /\ parsed[1].result.err = ""
             => /\ HasTokenForm(ParsedText)
                /\ MonthField(ParsedText) \in 1..12
                /\ parsed[1].result.t
                     = Time(YearField(ParsedText), MonthField(ParsedText),
                            1, 0, 0, 0)
        /\ ParsedText \in {Tok_13_2024, Tok_00_2024, <<>>, Tok_2024_01}
             => /\ parsed[1].result.err # ""
                /\ parsed[1].result.t = ZeroTime

\* ParseMonthYear("13-2024") returned an error.
C17_Observed ==
    /\ ParseCalled
    /\ ParsedText = Tok_13_2024
    /\ parsed[1].result.err # ""

\* A valid token: the form MM-YYYY with a month 01..12.
ValidToken(tok) == HasTokenForm(tok) /\ MonthField(tok) \in 1..12

\* The text a parser was called with: the argument of ParseMonthYear, the
\* text behind the pointer given to ParseMonthYearPtr (none behind nil).
CalledText ==
    IF parsed[1].fn = "ParseMonthYear" THEN parsed[1].arg
    ELSE IF parsed[1].arg = <<>> THEN <<>> ELSE parsed[1].arg[1]

\* C18: every valid MM-YYYY token is parsed, and formatting the date the
\* parser returned gives the token back, for a start month (ParseMonthYear,
\* formatMonthYear) and for an end month (ParseMonthYearPtr,
\* formatMonthYearPtr) alike: months go back to the caller as submitted.
C18_FormatOfParseIsIdentity ==
    (parsed # <<>> /\ ValidToken(CalledText)) =>
        /\ parsed[1].result.err = ""
        /\ parsed[1].formatted # <<>> => parsed[1].formatted[1] = parsed[1].arg

\* "03-1999" went through ParseMonthYearPtr and formatMonthYearPtr and came
\* back as "03-1999".
C18_Observed ==
    /\ parsed # <<>>
    /\ parsed[1].fn = "ParseMonthYearPtr"
    /\ parsed[1].arg = << <<"0", "3", "-", "1", "9", "9", "9">> >>
    /\ parsed[1].formatted = <<parsed[1].arg>>

(***************************************************************************)
(* C19..C20: errors of the write operations                                *)
(***************************************************************************)

\* The request just handled carried a well-formed :id.
IdGiven == resp # <<>> /\ resp[1].req.id # <<>> /\ uuidParse(resp[1].req.id[1]).err = ""

\* C19: DeleteSubscription on an id that has no stored row leaves the table
\* unchanged and is answered 404 Not Found, as GetSubscription and (for a
\* request that passes binding and date validation) UpdateSubscription
\* answer a missing id, and not 500.
C19_MissingIdIsNotFound ==
    [][ ( /\ IdGiven'
          /\ resp'[1].req.id[1] \notin StoredIds(store)
          /\ \/ Handled("delete")'
             \/ Handled("get")'
             \/ /\ Handled("update")'
                /\ BindOK(resp'[1].req.body[1])
                /\ BuildSubscription(resp'[1].req.body[1]).err = "" )
        => /\ store' = store
           /\ resp'[1].status = StatusNotFound ]_vars

\* A delete of an id that is not in the table was answered 500 with the
\* repository's error wrapped by the service.
C19_Observed ==
    /\ Handled("delete")
    /\ IdGiven
    /\ resp[1].status = StatusInternalServerError
    /\ resp[1].error = "failed to delete subscription: subscription not found"

\* The error the dates of a write request b are rejected with, "" if they are
\* not: a start or end token the parser refuses, or dates validateDates
\* refuses.
DateError(b) == BuildSubscription(b).err

\* C20: a create or update whose start or end token fails to parse, or whose
\* dates fail validation, is rejected before the store is reached: the table
\* is unchanged, no id is drawn, and the answer carries the date error; for
\* an update this is so even when the id has no row (the dates are checked
\* before the existence check).
C20_DatesRejectedBeforeStore ==
    [][ (WriteReachedService' /\ DateError(Body') # "") =>
          /\ store' = store
          /\ nextId' = nextId
          /\ resp'[1].status = StatusInternalServerError
          /\ resp'[1].error = DateError(Body') ]_vars

\* An update of an id that has no row, with the start token 13-2024, was
\* answered with the date error and not with "subscription not found".
C20_Observed ==
    /\ Handled("update")
    /\ IdGiven
    /\ resp[1].req.id[1] \notin StoredIds(store)
    /\ Body.start_date = Tok_13_2024
    /\ resp[1].status = StatusInternalServerError
    /\ resp[1].error = DateError(Body)
    /\ resp[1].error # "subscription not found"

(***************************************************************************)
(* C21..C22: an update and a delete of the same id in parallel             *)
(***************************************************************************)

\* The update just answered had a well-formed id, a body that binds and
\* dates that are accepted, and was not answered 200: its UPDATE, if it ran,
\* affected no row.
UpdateAppliedToNothing ==
    /\ Handled("update")
    /\ IdGiven
    /\ BindOK(Body)
    /\ DateError(Body) = ""
    /\ resp[1].status # StatusOK

\* C21: under every interleaving of an update with a delete of the same id,
\* an update that modifies no row is answered 404 "subscription not found",
\* also when the delete removes the row after the update's existence check
\* and before its UPDATE; it is never answered 500.
C21_UnappliedUpdateIsNotFound ==
    UpdateAppliedToNothing =>
        /\ resp[1].status = StatusNotFound
        /\ resp[1].error = "subscription not found"

\* An update whose row was deleted between its existence check and its
\* UPDATE was answered 500 with the repository's error wrapped by the
\* service.
C21_Observed ==
    /\ UpdateAppliedToNothing
    /\ resp[1].req.id[1] \in IssuedIds \ StoredIds(store)
    /\ resp[1].status = StatusInternalServerError
    /\ resp[1].error = "failed to update subscription: subscription not found"

\* The ids whose rows have been deleted: every generated id was inserted
\* when it was generated, so one that is not stored has been deleted.
DeletedIds == IssuedIds \ StoredIds(store)

\* C22: UpdateSubscription never creates or resurrects a row.  Under every
\* interleaving of updates, deletes and creates, an id whose row has been
\* deleted is never stored again, also when an update that passed its
\* existence check before the delete runs its UPDATE after it; an update
\* leaves the set of stored ids as it is; and the number of rows changes
\* only by +1 in a create and by -1 in a successful delete.
C22_UpdateNeverResurrects ==
    /\ [][ \A id \in DeletedIds : id \notin StoredIds(store') ]_vars
    /\ [][ Handled("update")' => StoredIds(store') = StoredIds(store) ]_vars
    /\ [][ Cardinality(store') # Cardinality(store) =>
             \/ /\ Handled("create")' /\ resp'[1].status = StatusCreated
                /\ Cardinality(store') = Cardinality(store) + 1
             \/ /\ Handled("delete")' /\ resp'[1].status = StatusOK
                /\ Cardinality(store') = Cardinality(store) - 1 ]_vars

\* An update that passed its existence check ran its UPDATE after the row
\* had been deleted: the id is still not stored, and the other row is all
\* the table holds.
C22_Observed ==
    /\ Handled("update")
    /\ IdGiven
    /\ DateError(Body) = ""
    /\ resp[1].status # StatusOK
    /\ resp[1].req.id[1] \in DeletedIds
    /\ Cardinality(store) = 1
====
